---- MODULE Spec2Model ----
(***************************************************************************)
(* Ingestion pipeline of the Telegram channel parser:                      *)
(*   src/src/parser/telegram_parser.py   (orchestrator)                    *)
(*   src/src/parser/data_extractor.py    (extract, generate_embedding)     *)
(*   src/src/parser/media_handler.py     (download_media)                  *)
(*   src/src/services/geocoding_service.py (get_coordinates)               *)
(*   src/src/models/property.py          (the properties table)            *)
(*                                                                         *)
(* The orchestrator runs on one asyncio event loop.  A coroutine runs      *)
(* without interruption until it awaits network I/O, so every action below *)
(* is one run of a task from one suspension point to the next.  Task 0 is  *)
(* the main task (start -> parse_history); task i > 0 is the task Telethon *)
(* creates for the NewMessage handler of message i.                        *)
(***************************************************************************)
EXTENDS Integers, Sequences, FiniteSets, TLC

\* ---------------------------------------------------------------- bounds
MaxMsgId == 2

None == "None"

\* ------------------------------------------------------- message texts
\* A text is a sequence of tokens.  "nbsp" is U+00A0, which the regex class
\* \s matches and str.replace(' ', '') keeps.
NoText == << >>
TextPlain == <<"prodam", "kvartir", "45", "komn">>
TextAddr == <<"sdam", "ul.", "Lenina">>
TextNbspPrice == <<"dom", "120", "nbsp", "000", "$">>
Texts == {NoText, TextPlain, TextAddr, TextNbspPrice}

DigitTokens == {"3", "45", "120", "000", "9"}
SpaceTokens == {" ", "nbsp"}
WordTokens == {"prodam", "sdam", "kvartir", "dom", "ofis", "Lenina", "ul.", "rayon",
               "komn", "m2", "studiya", "etazh", "rub", "RUB", "USD"}

\* Unknown numeric field (the regexes only produce non-negative numbers).
NoneInt == -1

NumValue(tok) ==
    CASE tok = "3" -> 3 [] tok = "45" -> 45 [] tok = "120" -> 120
      [] tok = "000" -> 0 [] tok = "9" -> 9 [] OTHER -> NoneInt

\* 10 ^ (number of digits of the token).
Scale(tok) == IF tok \in {"3", "9"} THEN 10 ELSE IF tok = "45" THEN 100 ELSE 1000

\* int() / float() of the digit tokens of a numeral written one after another.
RECURSIVE NumeralValue(_)
NumeralValue(numeral) ==
    IF numeral = << >> THEN 0
    ELSE NumeralValue(SubSeq(numeral, 1, Len(numeral) - 1)) * Scale(numeral[Len(numeral)])
         + NumValue(numeral[Len(numeral)])

\* ------------------------------------------------ PropertyDataExtractor
TRANSACTION_PATTERNS ==
    << <<"sell", {"prodam", "prodayu", "prodaetsya", "prodazha"}>>,
       <<"rent", {"sdam", "sdayu", "sdaetsya", "arenda", "snyat"}>> >>

PROPERTY_PATTERNS ==
    << <<"apartment", {"kvartir", "kv.", "apartment"}>>,
       <<"house", {"dom", "house", "kottedzh"}>>,
       <<"commercial", {"kommerch", "ofis", "magazin", "torgov"}>> >>

ROOMS_PATTERNS == << {"komn"}, {"k."}, {"bedroom"} >>
AREA_UNITS == {"m2", "kv.m"}
FLOOR_KEYWORDS == {"etazh", "et."}
FloorTokens == {"3/9"}
USD_TAGS == {"$", "USD"}
RUB_TAGS == {"RUB", "rub"}
ADDRESS_KEYWORDS == {"ul.", "ulitsa", "rayon", "r-n"}

Search(text, S) == {i \in 1 .. Len(text) : text[i] \in S}
Min(S) == CHOOSE x \in S : \A y \in S : x <= y
Max(S) == CHOOSE x \in S : \A y \in S : x >= y

\* The key of the first pattern (in dictionary order) found in the text.
extract_enum(text, patterns) ==
    LET hit == {k \in 1 .. Len(patterns) : Search(text, patterns[k][2]) # {}}
    IN  IF hit = {} THEN None ELSE patterns[Min(hit)][1]

\* Matches of (\d+)[-\s]?UNIT: a digit group followed by a unit of the set, with
\* at most one hyphen or whitespace character between them.
UnitHits(text, units) ==
    {i \in 1 .. Len(text) - 1 :
        /\ text[i] \in DigitTokens
        /\ \/ text[i + 1] \in units
           \/ /\ i + 2 <= Len(text)
              /\ text[i + 1] \in SpaceTokens \cup {"-"}
              /\ text[i + 2] \in units}

\* A variant that reports 0 rooms when no pattern matches.
extract_rooms_or_zero(text) ==
    LET hit == {k \in 1 .. Len(ROOMS_PATTERNS) : UnitHits(text, ROOMS_PATTERNS[k]) # {}}
    IN  IF hit = {} THEN 0
        ELSE NumValue(text[Min(UnitHits(text, ROOMS_PATTERNS[Min(hit)]))])

extract_rooms(text) ==
    LET hit == {k \in 1 .. Len(ROOMS_PATTERNS) : UnitHits(text, ROOMS_PATTERNS[k]) # {}}
    IN  IF hit = {} THEN NoneInt
        ELSE NumValue(text[Min(UnitHits(text, ROOMS_PATTERNS[Min(hit)]))])

\* End of the longest run of tokens of class S that starts at position i.
RunEnd(text, i, S) ==
    Max({j \in i .. Len(text) : \A k \in i .. j : text[k] \in S})

\* The position reached from j by \s*.
SkipSpaces(text, j) ==
    IF j > Len(text) \/ text[j] \notin SpaceTokens THEN j
    ELSE RunEnd(text, j, SpaceTokens) + 1

\* After position e come \s* and then a token of S.
FollowedBy(text, e, S) ==
    SkipSpaces(text, e + 1) <= Len(text) /\ text[SkipSpaces(text, e + 1)] \in S

\* Ends of \d+[\.,]?\d* for the digit group at i: the group, the group and a
\* separator, the group, a separator and a second group.
AreaNumberEnds(text, i) ==
    {i} \cup {e \in {i + 1} : e <= Len(text) /\ text[e] \in {",", "."}}
        \cup {e \in {i + 2} : /\ e <= Len(text)
                               /\ text[i + 1] \in {",", "."}
                               /\ text[e] \in DigitTokens}

AreaEnds(text, i) == {e \in AreaNumberEnds(text, i) : FollowedBy(text, e, AREA_UNITS)}

AreaHits(text) == {i \in 1 .. Len(text) : text[i] \in DigitTokens /\ AreaEnds(text, i) # {}}

\* float(match.group(1).replace(',', '.')), in thousandths of a square metre.
extract_area(text) ==
    IF AreaHits(text) = {} THEN NoneInt
    ELSE LET i == Min(AreaHits(text))
             e == Max(AreaEnds(text, i))
         IN  NumValue(text[i]) * 1000
             + (IF e = i + 2 THEN (NumValue(text[e]) * 1000) \div Scale(text[e]) ELSE 0)

\* match.group(1) of (?:KEYWORD)\s*:?\s*(\d+/\d+), None when nothing matches.
extract_floor(text) ==
    LET hit == {i \in Search(text, FLOOR_KEYWORDS) : FollowedBy(text, i, FloorTokens)}
    IN  IF hit = {} THEN None ELSE text[SkipSpaces(text, Min(hit) + 1)]

\* Starts of a match of (\d[\d\s,]*)\s*TAG: a digit group whose run of digits,
\* whitespace and commas is directly followed by a currency tag.
PriceHits(text, tags) ==
    {i \in 1 .. Len(text) :
        /\ text[i] \in DigitTokens
        /\ LET e == RunEnd(text, i, DigitTokens \cup SpaceTokens \cup {","})
           IN  e < Len(text) /\ text[e + 1] \in tags}

\* match.group(1).replace(',', '').replace(' ', ''): commas and plain spaces go,
\* every other character of the group stays.
StripSeparators(group) == SelectSeq(group, LAMBDA tok : tok \notin {",", " "})

\* str.strip(): leading and trailing whitespace removed.
RECURSIVE Strip(_)
Strip(s) ==
    IF s = << >> THEN s
    ELSE IF Head(s) \in SpaceTokens THEN Strip(Tail(s))
    ELSE IF s[Len(s)] \in SpaceTokens THEN Strip(SubSeq(s, 1, Len(s) - 1))
    ELSE s

\* float(price_str) raises ValueError unless, once stripped, the string is digits.
FloatRaises(price_str) == \E i \in 1 .. Len(Strip(price_str)) : Strip(price_str)[i] \notin DigitTokens

PriceGroup(text, tags) ==
    LET i == Min(PriceHits(text, tags))
    IN  SubSeq(text, i, RunEnd(text, i, DigitTokens \cup SpaceTokens \cup {","}))

\* round(price_rub / 90.0, 2) in cents: the quotient times 100 is 10 * rub / 9,
\* whose fraction is a ninth and never a half.
RubToUsdCents(price_rub) == (20 * price_rub + 9) \div 18

\* [raises, currency, numeral, price_usd]: the numeral is the digit groups of the
\* match, price_usd the returned price in cents.
extract_price(text) ==
    LET tags == IF PriceHits(text, USD_TAGS) # {} THEN USD_TAGS ELSE RUB_TAGS
    IN  IF PriceHits(text, tags) = {}
        THEN [raises |-> FALSE, currency |-> None, numeral |-> << >>, price_usd |-> NoneInt]
        ELSE LET price_str == StripSeparators(PriceGroup(text, tags))
             IN  [raises |-> FloatRaises(price_str),
                  currency |-> IF tags = USD_TAGS THEN "USD" ELSE "RUB",
                  numeral |-> Strip(price_str),
                  price_usd |-> IF FloatRaises(price_str) THEN NoneInt
                                ELSE IF tags = USD_TAGS
                                THEN 100 * NumeralValue(Strip(price_str))
                                ELSE RubToUsdCents(NumeralValue(Strip(price_str)))]

\* (ul.|ulitsa|rayon|r-n)\s*([\w\s\.]+): the keyword and the run of word,
\* whitespace and dot characters after it, stripped; << >> when nothing matches.
extract_address(text) ==
    LET cls == WordTokens \cup DigitTokens \cup SpaceTokens
        hit == {i \in Search(text, ADDRESS_KEYWORDS) : i < Len(text) /\ text[i + 1] \in cls}
    IN  IF hit = {} THEN << >>
        ELSE Strip(SubSeq(text, Min(hit), RunEnd(text, Min(hit) + 1, cls)))

clean_description(text) == Strip(text)

\* extract(text): the dictionary of lines 66-76, or raised = TRUE when float()
\* raises inside _extract_price.
extract(text) ==
    [raised |-> extract_price(text).raises,
     transaction_type |-> extract_enum(text, TRANSACTION_PATTERNS),
     property_type |-> extract_enum(text, PROPERTY_PATTERNS),
     rooms |-> extract_rooms(text),
     area_sqm |-> extract_area(text),
     floor |-> extract_floor(text),
     price_usd |-> extract_price(text).price_usd,
     address |-> extract_address(text),
     description |-> clean_description(text)]

\* generate_embedding(property_data) against a service that answers its k-th
\* call with responses[k]: [embedding, calls, input].
EmbedPart(known, part) == IF known THEN part ELSE << >>

text_to_embed(property_data) ==
    Strip(  EmbedPart(property_data.transaction_type # None, <<property_data.transaction_type>>)
         \o EmbedPart(property_data.property_type # None, <<property_data.property_type>>)
         \o EmbedPart(property_data.rooms \notin {NoneInt, 0},
                      <<ToString(property_data.rooms), "komnat">>)
         \o EmbedPart(property_data.area_sqm \notin {NoneInt, 0},
                      <<ToString(property_data.area_sqm), "m2">>)
         \o property_data.address
         \o property_data.description)

EmbedResponses == {"ok", "rate_limit", "error"}

\* except Exception (line 231): every error of the client library is caught.
EmbedCaught(response) == response \in {"rate_limit", "error"}

\* A variant that tries again, up to three times, until the service answers.
generate_embedding_retrying(property_data, responses) ==
    LET ok == {k \in 1 .. 3 : k <= Len(responses) /\ responses[k] = "ok"}
    IN  IF text_to_embed(property_data) = << >>
        THEN [embedding |-> None, calls |-> 0]
        ELSE IF ok = {} THEN [embedding |-> None, calls |-> 3]
        ELSE [embedding |-> "vector", calls |-> Min(ok)]

\* A variant whose try block lets the error of the service through.
generate_embedding_uncaught(property_data, responses) ==
    IF text_to_embed(property_data) = << >>
    THEN [embedding |-> None, calls |-> 0]
    ELSE [embedding |-> IF responses[1] = "ok" THEN "vector" ELSE "raise", calls |-> 1]

\* A variant without the test of line 222.
generate_embedding_unguarded(property_data, responses) ==
    [embedding |-> IF responses[1] = "ok" THEN "vector" ELSE None, calls |-> 1]

\* embedding is the vector, None, or "raise" when an exception leaves the call.
generate_embedding(property_data, responses) ==
    IF text_to_embed(property_data) = << >>
    THEN [embedding |-> None, calls |-> 0]
    ELSE [embedding |-> IF responses[1] = "ok" THEN "vector"
                        ELSE IF EmbedCaught(responses[1]) THEN None
                        ELSE "raise",
          calls |-> 1]

\* ------------------------------------------------------ GeocodingService
\* What the HTTP exchange of one request can turn out to be.
GeoOutcomes == {"found", "empty", "request_error", "key_error",
                "http_status", "bad_json", "bad_pos"}

\* Exceptions the except clause of line 64 catches (RequestError, KeyError,
\* IndexError); HTTPStatusError and ValueError are not among them.
GeoCaught(outcome) == outcome \in {"request_error", "key_error"}

\* The guard of line 40: TRUE when a request is made at all.
GeoRequests(api_key, address) == api_key /\ address # << >>

\* "coords", None, or "raise" when the exception leaves get_coordinates.
get_coordinates(api_key, address, outcome) ==
    IF ~GeoRequests(api_key, address) THEN None
    ELSE IF outcome = "found" THEN "coords"
    ELSE IF outcome = "empty" \/ GeoCaught(outcome) THEN None
    ELSE "raise"

YANDEX_API_KEY == TRUE

\* ------------------------------------------------------------- the state
VARIABLES
    channel,          \* the source channel: channel[i] is the message with id i
    rows,             \* the properties table, in insertion order
    phase,            \* position of the main task in __init__ / start
    last_message_id,  \* TelegramChannelParser.last_message_id
    history,          \* parse_history: fetched message ids not yet iterated
    handed,           \* ids parse_history has passed to process_message in this run
    pc,               \* pc[t]: position of task t inside process_message
    cur,              \* id of the message the main task is processing (0: none)
    paths,            \* paths[t]: media_paths held by task t across an await
    dlCalls,          \* dlCalls[t]: message.download_media calls made by task t
    geoCalls,         \* geoCalls[t]: geocoding HTTP requests made by task t
    embCalls,         \* embCalls[t]: openai.embeddings.create calls made by task t
    log,              \* what process_message has printed about commits in this run
    session,          \* db_session: "active", or "inactive" after a failed flush
    embData,          \* generate_embedding on its own: the property_data passed
    embResponses,     \*   the answers the embedding service gives, call by call
    embResult,        \*   what the call returned and how many requests it made
    mdMsg,            \* download_media on its own: the message passed and its album
    mdPc,             \*   position of the call: an await, returned or raised
    mdPaths,          \*   media_paths
    mdQueue,          \*   group_messages not yet iterated (0 stands for None)
    mdDownloads,      \*   message ids whose download_media was awaited, in order
    mdReencoded,      \*   paths _process_image has rewritten as JPEG
    mdFailed,         \*   paths whose compression raised and was reported
    exText,           \* extract on its own: the text passed
    exResult          \*   what the call returned

pipeVars == <<channel, rows, phase, last_message_id, history, handed,
              pc, cur, paths, dlCalls, geoCalls, embCalls, log, session>>
embVars == <<embData, embResponses, embResult>>
mediaVars == <<mdMsg, mdPc, mdPaths, mdQueue, mdDownloads, mdReencoded, mdFailed>>
extVars == <<exText, exResult>>
vars == <<pipeVars, embVars, mediaVars, extVars>>

Tasks == 0 .. MaxMsgId
LiveTasks == 1 .. MaxMsgId
MainTask == 0

Suspended == {"downloading", "geocoding"}
Terminal == {"persisted", "skipped", "rolled_back",
             "raised_extract", "raised_media", "raised_geocode", "raised_embed"}
Running == {"fetching", "backfilling", "listening"}

\* The message task t is processing.
MsgOf(t) == IF t = MainTask THEN cur ELSE t

\* The main task holds the event loop: it is inside parse_history and not
\* suspended in an await, so no handler task can run.
MainRunning == phase = "backfilling" /\ pc[MainTask] \notin Suspended

Zero == [t \in Tasks |-> 0]
Idle == [t \in Tasks |-> "idle"]
NoPaths == [t \in Tasks |-> << >>]

NoData ==
    [raised |-> FALSE, transaction_type |-> None, property_type |-> None,
     rooms |-> NoneInt, area_sqm |-> NoneInt, floor |-> None, price_usd |-> NoneInt,
     address |-> << >>, description |-> << >>]
NotCalled == [done |-> FALSE, embedding |-> None, calls |-> 0]

\* A message without media, outside any album.
NoMessage == [kind |-> "none", size |-> 1, grouped |-> FALSE, siblings |-> << >>]
NotExtracted == [done |-> FALSE, data |-> NoData]

MediaIdle ==
    /\ mdMsg = NoMessage
    /\ mdPc = "idle"
    /\ mdPaths = << >>
    /\ mdQueue = << >>
    /\ mdDownloads = << >>
    /\ mdReencoded = {}
    /\ mdFailed = {}

ExtractIdle ==
    /\ exText = << >>
    /\ exResult = NotExtracted

PipeInit ==
    /\ channel = << >>
    /\ rows = << >>
    /\ phase = "stopped"
    /\ last_message_id = 0
    /\ history = << >>
    /\ handed = << >>
    /\ pc = Idle
    /\ cur = 0
    /\ paths = NoPaths
    /\ dlCalls = Zero
    /\ geoCalls = Zero
    /\ embCalls = Zero
    /\ log = << >>
    /\ session = "active"

EmbedIdle ==
    /\ embData = NoData
    /\ embResponses = << >>
    /\ embResult = NotCalled

Init ==
    /\ PipeInit
    /\ EmbedIdle
    /\ MediaIdle
    /\ ExtractIdle

\* ------------------------------------------------------ the properties table
\* telegram_message_id = Column(BIGINT, unique=True): the insert of a second row
\* with the id of an existing row fails.
NoUniqueConstraint(id) == FALSE

UniqueViolation(id) == \E i \in 1 .. Len(rows) : rows[i].telegram_message_id = id

\* What the database makes of add + commit, the constraint aside.
DbOutcomes == {"ok", "error"}

\* db_session.add(new_property); db_session.commit() returns without raising.
\* A session whose flush failed refuses every commit until it is rolled back.
CommitSucceeds(id, db) == session = "active" /\ db = "ok" /\ ~UniqueViolation(id)

\* Property(...) of lines 141-160.
NewProperty(m, coords, embedding, media_paths) ==
    [telegram_message_id |-> m.id,
     posted_at |-> m.date,
     transaction_type |-> extract(m.text).transaction_type,
     property_type |-> extract(m.text).property_type,
     rooms |-> extract(m.text).rooms,
     area_sqm |-> extract(m.text).area_sqm,
     floor |-> extract(m.text).floor,
     price_usd |-> extract(m.text).price_usd,
     address |-> extract(m.text).address,
     coords |-> coords,
     embedding |-> embedding,
     photos |-> media_paths]

\* _load_last_message_id: query(Property).order_by(posted_at.desc()).first().
\* Rows with equal posted_at come in an order the database chooses.
load_last_message_id ==
    IF rows = << >> THEN {0}
    ELSE {rows[i].telegram_message_id :
            i \in {j \in 1 .. Len(rows) :
                      \A k \in 1 .. Len(rows) : rows[k].posted_at <= rows[j].posted_at}}

\* ------------------------------------------------------- process_message
Raised == {"raised_extract", "raised_media", "raised_geocode", "raised_embed"}

\* Task t reaches `where` (an await, a return or an exception) with the given
\* table, watermark, locals and call counts.  An exception in the main task
\* leaves parse_history and start: the process ends and its tasks with it; an
\* exception in a handler task ends that task only.
SettleTask(t, id, where, newRows, newLast, media_paths, dl, gc, ec) ==
    /\ pc' = IF t = MainTask /\ where \in Raised
             THEN [Idle EXCEPT ![t] = where]
             ELSE [pc EXCEPT ![t] = where]
    /\ phase' = IF t = MainTask /\ where \in Raised THEN "crashed" ELSE phase
    /\ rows' = newRows
    /\ last_message_id' = newLast
    /\ paths' = [paths EXCEPT ![t] = media_paths]
    /\ dlCalls' = [dlCalls EXCEPT ![t] = dl]
    /\ geoCalls' = [geoCalls EXCEPT ![t] = gc]
    /\ embCalls' = [embCalls EXCEPT ![t] = ec]
    /\ log' = IF where = "persisted" THEN Append(log, <<"saved", id>>)
              ELSE IF where = "rolled_back" THEN Append(log, <<"error", id>>)
              ELSE log

\* The same outside the try block: the session is not touched.
Settle(t, id, where, newRows, newLast, media_paths, dl, gc, ec) ==
    /\ SettleTask(t, id, where, newRows, newLast, media_paths, dl, gc, ec)
    /\ session' = session

SaveWithoutRollback(t, m, coords, embedding, media_paths, dl, gc, ec) ==
    \E db \in DbOutcomes :
        IF CommitSucceeds(m.id, db)
        THEN /\ SettleTask(t, m.id, "persisted",
                           Append(rows, NewProperty(m, coords, embedding, media_paths)),
                           m.id, << >>, dl, gc, ec)
             /\ session' = "active"
        ELSE /\ SettleTask(t, m.id, "rolled_back", rows, last_message_id, << >>,
                           dl, gc, ec)
             /\ session' = "inactive"

\* A variant whose failed commit leaves the row it had added.
SaveLeavingRow(t, m, coords, embedding, media_paths, dl, gc, ec) ==
    \E db \in DbOutcomes :
        IF CommitSucceeds(m.id, db)
        THEN /\ SettleTask(t, m.id, "persisted",
                           Append(rows, NewProperty(m, coords, embedding, media_paths)),
                           m.id, << >>, dl, gc, ec)
             /\ session' = "active"
        ELSE /\ SettleTask(t, m.id, "rolled_back",
                           Append(rows, NewProperty(m, coords, embedding, media_paths)),
                           last_message_id, << >>, dl, gc, ec)
             /\ session' = "active"

\* A variant that overwrites the row of a message that is ingested again.
SaveUpserting(t, m, coords, embedding, media_paths, dl, gc, ec) ==
    \E db \in DbOutcomes :
        IF session = "active" /\ db = "ok"
        THEN /\ SettleTask(t, m.id, "persisted",
                           IF UniqueViolation(m.id)
                           THEN [i \in 1 .. Len(rows) |->
                                   IF rows[i].telegram_message_id = m.id
                                   THEN NewProperty(m, coords, embedding, media_paths)
                                   ELSE rows[i]]
                           ELSE Append(rows, NewProperty(m, coords, embedding, media_paths)),
                           m.id, << >>, dl, gc, ec)
             /\ session' = "active"
        ELSE /\ SettleTask(t, m.id, "rolled_back", rows, last_message_id, << >>,
                           dl, gc, ec)
             /\ session' = "active"

\* Lines 162-170: add, commit, then the watermark; rollback on any exception.
Save(t, m, coords, embedding, media_paths, dl, gc, ec) ==
    \E db \in DbOutcomes :
        IF CommitSucceeds(m.id, db)
        THEN /\ SettleTask(t, m.id, "persisted",
                           Append(rows, NewProperty(m, coords, embedding, media_paths)),
                           m.id, << >>, dl, gc, ec)
             /\ session' = "active"
        ELSE /\ SettleTask(t, m.id, "rolled_back", rows, last_message_id, << >>,
                           dl, gc, ec)
             /\ session' = "active"

\* Line 138: generate_embedding is synchronous, the task keeps the loop.
Embed(t, m, d, coords, media_paths, dl, gc) ==
    \E r \in EmbedResponses :
        LET e == generate_embedding(d, <<r>>)
        IN  IF e.embedding = "raise"
            THEN Settle(t, m.id, "raised_embed", rows, last_message_id, << >>,
                        dl, gc, e.calls)
            ELSE Save(t, m, coords, e.embedding, media_paths, dl, gc, e.calls)

\* A variant that sends the request a second time.
GeocodeTwice(t, m, d, media_paths, dl) ==
    IF GeoRequests(YANDEX_API_KEY, d.address)
    THEN Settle(t, m.id, "geocoding", rows, last_message_id, media_paths, dl, 2, 0)
    ELSE Embed(t, m, d, None, media_paths, dl, 0)

\* Lines 131-135: the task awaits the HTTP request when one is made.
Geocode(t, m, d, media_paths, dl) ==
    IF GeoRequests(YANDEX_API_KEY, d.address)
    THEN Settle(t, m.id, "geocoding", rows, last_message_id, media_paths, dl, 1, 0)
    ELSE Embed(t, m, d, None, media_paths, dl, 0)

\* A variant that goes on to geocoding and the save without the download.
MediaNotAwaited(t, m, d) == Geocode(t, m, d, << >>, 0)

\* Line 128: the task awaits the download when the message carries media.
Media(t, m, d) ==
    IF m.media # "none"
    THEN Settle(t, m.id, "downloading", rows, last_message_id, << >>, 1, 0, 0)
    ELSE Geocode(t, m, d, << >>, 0)

ProcessAnyMessage(t, m) == Media(t, m, extract(m.text))

\* Lines 119-125: process_message from its call to its first await.
Process(t, m) ==
    IF m.text = NoText
    THEN Settle(t, m.id, "skipped", rows, last_message_id, << >>, 0, 0, 0)
    ELSE IF extract(m.text).raised
    THEN Settle(t, m.id, "raised_extract", rows, last_message_id, << >>, 0, 0, 0)
    ELSE Media(t, m, extract(m.text))

\* ------------------------------------------------------------ the source
MediaKinds == {"none", "photo"}

LastDate == IF channel = << >> THEN 0 ELSE channel[Len(channel)].date

\* A message is posted to the channel: ids grow by one, dates never go back.
\* While the handler of line 82 is registered the update creates a handler task.
\* The date has a resolution of one second: a message is posted either in the
\* same second as the one before it or later.
Post(text, media, later) ==
    /\ Len(channel) < MaxMsgId
    /\ channel' = Append(channel, [id |-> Len(channel) + 1, text |-> text,
                                   media |-> media,
                                   date |-> IF channel = << >> THEN 1 ELSE LastDate + later])
    /\ pc' = IF phase \in Running
             THEN [pc EXCEPT ![Len(channel) + 1] = "received"]
             ELSE pc
    /\ UNCHANGED <<rows, phase, last_message_id, history, handed, cur,
                   paths, dlCalls, geoCalls, embCalls, log, session, embVars, mediaVars, extVars>>

\* ------------------------------------------------------- the orchestrator
\* __init__ (lines 28-40): a new process; the watermark is read from the table.
Construct ==
    /\ phase \in {"stopped", "crashed"}
    /\ phase' = "init"
    /\ last_message_id' \in load_last_message_id
    /\ history' = << >>
    /\ handed' = << >>
    /\ pc' = Idle
    /\ cur' = 0
    /\ paths' = NoPaths
    /\ dlCalls' = Zero
    /\ geoCalls' = Zero
    /\ embCalls' = Zero
    /\ log' = << >>
    /\ session' = "active"
    /\ UNCHANGED <<channel, rows, embVars, mediaVars, extVars>>

AlwaysParsesHistory == TRUE

\* The test of line 87: history is parsed when the watermark is 0.
ParsesHistory == last_message_id = 0

\* start, lines 75-91: connect, register the handler, then either enter
\* parse_history or go to run_until_disconnected.
StartUp ==
    /\ phase = "init"
    /\ phase' = IF ParsesHistory THEN "fetching" ELSE "listening"
    /\ UNCHANGED <<channel, rows, last_message_id, history, handed, pc, cur,
                   paths, dlCalls, geoCalls, embCalls, log, session, embVars, mediaVars, extVars>>

HistoryLimit == 100

\* client.iter_messages(channel, limit): the most recent messages, newest first.
iter_messages(limit) ==
    LET n == Len(channel)
        k == IF n < limit THEN n ELSE limit
    IN  [i \in 1 .. k |-> n - i + 1]

\* parse_history, line 101: the first step of the iteration fetches the messages.
Fetch ==
    /\ phase = "fetching"
    /\ phase' = "backfilling"
    /\ history' = iter_messages(HistoryLimit)
    /\ UNCHANGED <<channel, rows, last_message_id, handed, pc, cur,
                   paths, dlCalls, geoCalls, embCalls, log, session, embVars, mediaVars, extVars>>

\* The test of line 102.
AboveWatermark(id) == id > last_message_id

\* parse_history, lines 101-103: one turn of the loop, up to the first await of
\* process_message.
BackfillStep ==
    /\ phase = "backfilling"
    /\ pc[MainTask] \notin Suspended
    /\ history # << >>
    /\ history' = Tail(history)
    /\ IF AboveWatermark(Head(history))
       THEN /\ cur' = Head(history)
            /\ handed' = Append(handed, Head(history))
            /\ Process(MainTask, channel[Head(history)])
       ELSE /\ cur' = 0
            /\ handed' = handed
            /\ Settle(MainTask, 0, "idle", rows, last_message_id, << >>, 0, 0, 0)
    /\ UNCHANGED <<channel, embVars, mediaVars, extVars>>

\* parse_history returns; start goes on to run_until_disconnected (line 92).
BackfillDone ==
    /\ phase = "backfilling"
    /\ pc[MainTask] \notin Suspended
    /\ history = << >>
    /\ phase' = "listening"
    /\ UNCHANGED <<channel, rows, last_message_id, history, handed, pc, cur,
                   paths, dlCalls, geoCalls, embCalls, log, session, embVars, mediaVars, extVars>>

\* handler(event), lines 83-85: the handler task starts process_message.
HandlerStart(t) ==
    /\ phase \in Running
    /\ ~MainRunning
    /\ pc[t] = "received"
    /\ Process(t, channel[t])
    /\ UNCHANGED <<channel, history, handed, cur, embVars, mediaVars, extVars>>

DownloadOutcomes == {"ok", "fail"}

\* message.download_media returns a path or raises (media_handler.py line 48).
DownloadDone(t, outcome) ==
    /\ phase \in Running
    /\ pc[t] = "downloading"
    /\ t = MainTask \/ ~MainRunning
    /\ LET m == channel[MsgOf(t)]
       IN  IF outcome = "ok"
           THEN Geocode(t, m, extract(m.text), << <<"media", m.id>> >>, dlCalls[t])
           ELSE Settle(t, m.id, "raised_media", rows, last_message_id, << >>,
                       dlCalls[t], 0, 0)
    /\ UNCHANGED <<channel, history, handed, cur, embVars, mediaVars, extVars>>

\* get_coordinates returns or raises (geocoding_service.py lines 50-66).
GeocodeDone(t, outcome) ==
    /\ phase \in Running
    /\ pc[t] = "geocoding"
    /\ t = MainTask \/ ~MainRunning
    /\ LET m == channel[MsgOf(t)]
           d == extract(m.text)
           coords == get_coordinates(YANDEX_API_KEY, d.address, outcome)
       IN  IF coords = "raise"
           THEN Settle(t, m.id, "raised_geocode", rows, last_message_id, << >>,
                       dlCalls[t], geoCalls[t], 0)
           ELSE Embed(t, m, d, coords, paths[t], dlCalls[t], geoCalls[t])
    /\ UNCHANGED <<channel, history, handed, cur, embVars, mediaVars, extVars>>

\* The process is stopped (killed, disconnected): everything in memory is lost.
Stop ==
    /\ phase \in Running \cup {"init"}
    /\ phase' = "stopped"
    /\ last_message_id' = 0
    /\ history' = << >>
    /\ handed' = << >>
    /\ pc' = Idle
    /\ cur' = 0
    /\ paths' = NoPaths
    /\ dlCalls' = Zero
    /\ geoCalls' = Zero
    /\ embCalls' = Zero
    /\ log' = << >>
    /\ session' = "active"
    /\ UNCHANGED <<channel, rows, embVars, mediaVars, extVars>>

Next ==
    \/ \E text \in Texts, media \in MediaKinds, later \in {0, 1} : Post(text, media, later)
    \/ Construct
    \/ StartUp
    \/ Fetch
    \/ BackfillStep
    \/ BackfillDone
    \/ \E t \in LiveTasks : HandlerStart(t)
    \/ \E t \in Tasks, outcome \in DownloadOutcomes : DownloadDone(t, outcome)
    \/ \E t \in Tasks, outcome \in GeoOutcomes : GeocodeDone(t, outcome)
    \/ Stop

Spec == Init /\ [][Next]_vars

\* ------------------------------------------- generate_embedding on its own
ScriptLen == 3

EmbInputs ==
    [raised : {FALSE},
     transaction_type : {None, "sell"},
     property_type : {None, "apartment"},
     rooms : {NoneInt, 0, 3},
     area_sqm : {NoneInt, 45000},
     address : {<< >>, <<"ul.", "Lenina">>},
     description : {<< >>, <<" ">>, <<"prodam">>}]

InitEmbed ==
    /\ PipeInit
    /\ embData \in EmbInputs
    /\ embResponses \in [1 .. ScriptLen -> EmbedResponses]
    /\ embResult = NotCalled
    /\ MediaIdle
    /\ ExtractIdle

CallGenerateEmbedding ==
    /\ ~embResult.done
    /\ embResult' = [done |-> TRUE,
                     embedding |-> generate_embedding(embData, embResponses).embedding,
                     calls |-> generate_embedding(embData, embResponses).calls]
    /\ UNCHANGED <<embData, embResponses, pipeVars, mediaVars, extVars>>

NextEmbed == CallGenerateEmbedding

SpecEmbed == InitEmbed /\ [][NextEmbed]_vars

\* ----------------------------------------------- download_media on its own
\* The trigger message is message 1 of its album; its siblings are 2, 3, ...
TriggerId == 1

MdKinds == {"none", "photo", "video"}

\* File sizes in megabytes around the threshold of _process_image.
FileSizes == {1, 2, 3}
max_size_mb == 2

MdInputs ==
    {m \in [kind : MdKinds, size : FileSizes, grouped : BOOLEAN,
            siblings : {<< >>, <<"photo">>}] :
        ~m.grouped => m.siblings = << >>}

\* msg.photo or msg.video of message id of the album; 0 is None.
KindOf(id) == IF id = TriggerId THEN mdMsg.kind ELSE mdMsg.siblings[id - 1]
HasMedia(id) == id # 0 /\ KindOf(id) \in {"photo", "video"}

\* client.get_messages(chat_id, ids=[message.id]): the message asked for, or, as
\* the comment of lines 56-57 expects, every message of its album, or None in
\* its place when the message is gone.
GetMessagesResults == {"requested", "group", "missing", "fail"}

get_messages(result) ==
    IF result = "requested" THEN <<TriggerId>>
    ELSE IF result = "group"
    THEN <<TriggerId>> \o [i \in 1 .. Len(mdMsg.siblings) |-> i + 1]
    ELSE <<0>>

CompressOutcomes == {"ok", "fail"}

\* A variant that also rewrites a file of exactly the threshold size.
ReencodesAtThreshold(path, kind, compress) ==
    IF kind = "photo" /\ mdMsg.size >= max_size_mb /\ compress = "ok" THEN {path} ELSE {}

\* _process_image: the paths it rewrites; the path it returns is its argument.
Reencodes(path, kind, compress) ==
    IF kind = "photo" /\ mdMsg.size > max_size_mb /\ compress = "ok" THEN {path} ELSE {}

\* _process_image, lines 86-87: the paths whose compression raises.
CompressFails(path, kind, compress) ==
    IF kind = "photo" /\ mdMsg.size > max_size_mb /\ compress = "fail" THEN {path} ELSE {}

InitMedia ==
    /\ PipeInit
    /\ EmbedIdle
    /\ ExtractIdle
    /\ mdMsg \in MdInputs
    /\ mdPc = "idle"
    /\ mdPaths = << >>
    /\ mdQueue = << >>
    /\ mdDownloads = << >>
    /\ mdReencoded = {}
    /\ mdFailed = {}

\* Lines 44-48 and 53-58: up to the first await.
MdCall ==
    /\ mdPc = "idle"
    /\ mdPc' = IF mdMsg.kind \in {"photo", "video"} THEN "own"
               ELSE IF mdMsg.grouped THEN "get"
               ELSE "returned"
    /\ mdDownloads' = IF mdMsg.kind \in {"photo", "video"} THEN <<TriggerId>> ELSE << >>
    /\ UNCHANGED <<mdMsg, mdPaths, mdQueue, mdReencoded, mdFailed, pipeVars, embVars, extVars>>

\* Lines 48-58: message.download_media returns or raises.
MdOwnDone(outcome, compress) ==
    /\ mdPc = "own"
    /\ IF outcome = "fail"
       THEN /\ mdPc' = "raised"
            /\ UNCHANGED <<mdPaths, mdReencoded, mdFailed>>
       ELSE /\ mdPaths' = Append(mdPaths, <<TriggerId, 0>>)
            /\ mdReencoded' = Reencodes(<<TriggerId, 0>>, mdMsg.kind, compress)
            /\ mdFailed' = CompressFails(<<TriggerId, 0>>, mdMsg.kind, compress)
            /\ mdPc' = IF mdMsg.grouped THEN "get" ELSE "returned"
    /\ UNCHANGED <<mdMsg, mdQueue, mdDownloads, pipeVars, embVars, extVars>>

\* Lines 58-61: get_messages returns or raises; the loop runs to its first
\* download.
MdGetMessagesDone(result) ==
    /\ mdPc = "get"
    /\ IF result = "fail"
       THEN /\ mdPc' = "raised"
            /\ UNCHANGED <<mdQueue, mdDownloads>>
       ELSE LET q == SelectSeq(get_messages(result), HasMedia)
            IN  /\ mdQueue' = q
                /\ mdPc' = IF q = << >> THEN "returned" ELSE "group"
                /\ mdDownloads' = IF q = << >> THEN mdDownloads
                                  ELSE Append(mdDownloads, Head(q))
    /\ UNCHANGED <<mdMsg, mdPaths, mdReencoded, mdFailed, pipeVars, embVars, extVars>>

\* Lines 61-66: msg.download_media returns or raises.  The download of an
\* attachment whose file is already in media_dir returns the same path, with the
\* file written anew, or a new one (copy).
MdGroupDone(outcome, copy, compress) ==
    /\ mdPc = "group"
    /\ IF outcome = "fail"
       THEN /\ mdPc' = "raised"
            /\ UNCHANGED <<mdPaths, mdQueue, mdDownloads, mdReencoded, mdFailed>>
       ELSE LET msg == Head(mdQueue)
                onDisk == \E i \in 1 .. Len(mdPaths) : mdPaths[i][1] = msg
                path == <<msg, IF onDisk THEN copy ELSE 0>>
                listed == \E i \in 1 .. Len(mdPaths) : mdPaths[i] = path
            IN  /\ mdPaths' = IF listed THEN mdPaths ELSE Append(mdPaths, path)
                /\ mdReencoded' = (mdReencoded \ {path})
                                     \cup Reencodes(path, KindOf(msg), compress)
                /\ mdFailed' = (mdFailed \ {path})
                                  \cup CompressFails(path, KindOf(msg), compress)
                /\ mdQueue' = Tail(mdQueue)
                /\ mdPc' = IF Tail(mdQueue) = << >> THEN "returned" ELSE "group"
                /\ mdDownloads' = IF Tail(mdQueue) = << >> THEN mdDownloads
                                  ELSE Append(mdDownloads, Head(Tail(mdQueue)))
    /\ UNCHANGED <<mdMsg, pipeVars, embVars, extVars>>

NextMedia ==
    \/ MdCall
    \/ \E outcome \in DownloadOutcomes, compress \in CompressOutcomes :
          MdOwnDone(outcome, compress)
    \/ \E result \in GetMessagesResults : MdGetMessagesDone(result)
    \/ \E outcome \in DownloadOutcomes, copy \in {0, 1}, compress \in CompressOutcomes :
          MdGroupDone(outcome, copy, compress)

SpecMedia == InitMedia /\ [][NextMedia]_vars

\* -------------------------------------------------------- extract on its own
MaxTextLen == 4

ExtractAlphabet == {"3", "000", " ", "nbsp", ",", "$", "rub", "komn", "studiya", "Lenina"}

\* Texts of up to MaxTextLen tokens in which a run of digits is one token.
ExtractTexts ==
    {text \in UNION {[1 .. n -> ExtractAlphabet] : n \in 0 .. MaxTextLen} :
        \A i \in 1 .. Len(text) - 1 :
            ~(text[i] \in DigitTokens /\ text[i + 1] \in DigitTokens)}

InitExtract ==
    /\ PipeInit
    /\ EmbedIdle
    /\ MediaIdle
    /\ exText \in ExtractTexts
    /\ exResult = NotExtracted

CallExtract ==
    /\ ~exResult.done
    /\ exResult' = [done |-> TRUE, data |-> extract(exText)]
    /\ UNCHANGED <<exText, pipeVars, embVars, mediaVars>>

NextExtract == CallExtract

SpecExtract == InitExtract /\ [][NextExtract]_vars

\* ================================================================ claims
RowIds == {rows[i].telegram_message_id : i \in 1 .. Len(rows)}
MaxPersistedId == IF rows = << >> THEN 0 ELSE Max(RowIds)
HasText(id) == channel[id].text # NoText
\* Task t is inside process_message or has left it.
Started(t) == pc[t] \notin {"idle", "received"}

\* C1: no two rows of the properties table share a telegram_message_id, however
\* often and in whatever interleaving a message id is ingested.
C1_UniqueMessageId ==
    \A i, j \in 1 .. Len(rows) :
        rows[i].telegram_message_id = rows[j].telegram_message_id => i = j

\* A message was saved and a second ingestion of the same id then failed at the
\* commit; the table holds one row for it.
C1_Witness ==
    \E i, j \in 1 .. Len(log) :
        /\ i < j
        /\ log[i][1] = "saved" /\ log[j][1] = "error" /\ log[i][2] = log[j][2]
        /\ Cardinality({k \in 1 .. Len(rows) : rows[k].telegram_message_id = log[i][2]}) = 1

\* C2: the watermark read at construction is the largest persisted message id
\* (0 when the table is empty).
C2_WatermarkIsMaxId == phase = "init" => last_message_id = MaxPersistedId

C4_BackfillAscending ==
    \A i, j \in 1 .. Len(handed) : i < j => handed[i] < handed[j]

\* C5: no failure of a stage of one message ends the orchestrator.
C5_NeverCrashes == phase # "crashed"

\* C6: a step that reports a failed save adds no row, leaves last_message_id and
\* the table the watermark is derived from as they were, leaves the session
\* usable and the orchestrator running.
C6_RollbackHarmless ==
    [][(Len(log') = Len(log) + 1 /\ log'[Len(log')][1] = "error")
         => /\ rows' = rows
            /\ last_message_id' = last_message_id
            /\ session' = "active"
            /\ phase' = phase /\ phase \in Running]_vars

\* A save failed and, later in the same run, a message with another id was saved.
C6_Witness ==
    \E i, j \in 1 .. Len(log) :
        /\ i < j
        /\ log[i][1] = "error" /\ log[j][1] = "saved" /\ log[i][2] # log[j][2]
        /\ log[j][2] \in RowIds

\* C7: a message without text ends as skipped, with no download, no geocoding
\* request and no embedding request; it never has a row and never becomes the
\* watermark.
C7_NoTextSkipped ==
    /\ \A t \in Tasks :
          (Started(t) /\ ~HasText(MsgOf(t)))
              => /\ pc[t] = "skipped"
                 /\ dlCalls[t] = 0 /\ geoCalls[t] = 0 /\ embCalls[t] = 0
    /\ \A id \in RowIds : HasText(id)
    /\ last_message_id # 0 => HasText(last_message_id)

\* A message with a photo and no text was skipped, in the backfill and live.
C7_Witness ==
    /\ pc[MainTask] = "skipped" /\ channel[cur].media = "photo"
    /\ \E t \in LiveTasks : pc[t] = "skipped" /\ channel[t].media = "photo"

\* C8: at most one message is in the middle of process_message at any moment.
C8_OneAtATime == Cardinality({t \in Tasks : pc[t] \in Suspended}) <= 1

\* C9: a text message whose processing ended has a row, whatever geocoding and
\* embedding did (an extraction, download or persistence failure set aside).
C9_EnrichmentNeverDrops ==
    \A t \in Tasks :
        (pc[t] \in Terminal \ {"raised_extract", "raised_media", "rolled_back"}
            /\ HasText(MsgOf(t)))
        => MsgOf(t) \in RowIds

RowOf(id) == rows[CHOOSE i \in 1 .. Len(rows) : rows[i].telegram_message_id = id]

\* C11: no task ends with an exception of generate_embedding, no task makes more
\* than three embedding requests for its message, and every row carries either a
\* vector or no embedding: a failed embedding request leaves the message to the
\* save with the embedding absent.
C11_EmbeddingSoftFailure ==
    /\ \A t \in Tasks : pc[t] # "raised_embed" /\ embCalls[t] <= 3
    /\ \A i \in 1 .. Len(rows) : rows[i].embedding \in {"vector", None}

\* A task made its embedding request, the request failed, and the message was
\* persisted without an embedding.
C11_Witness ==
    \E t \in Tasks :
        /\ pc[t] = "persisted" /\ embCalls[t] = 1
        /\ RowOf(MsgOf(t)).embedding = None

\* Every field generate_embedding reads is unknown or empty.
AllUnknown(property_data) ==
    /\ property_data.transaction_type = None /\ property_data.property_type = None
    /\ property_data.rooms = NoneInt /\ property_data.area_sqm = NoneInt
    /\ property_data.address = << >> /\ Strip(property_data.description) = << >>

\* C12: generate_embedding on fields that are all unknown or empty returns None
\* and makes no request to the embedding service.
C12_EmptyTextNoCall ==
    (embResult.done /\ AllUnknown(embData))
    => (embResult.embedding = None /\ embResult.calls = 0)

\* The service would have answered; the description is blank and nothing is sent.
C12_Witness ==
    /\ embResult.done /\ AllUnknown(embData) /\ embData.description = <<" ">>
    /\ embResponses[1] = "ok"
    /\ embResult.embedding = None /\ embResult.calls = 0

\* C13: whatever the geocoding service does, get_coordinates returns and no task
\* ends with an exception of the geocoding stage.
C13_GeocodingNeverRaises == \A t \in Tasks : pc[t] # "raised_geocode"

\* Attachments the returned paths refer to.
ReturnedAttachments == {mdPaths[i][1] : i \in 1 .. Len(mdPaths)}

\* C14: download_media on a photo message whose album has one more photo
\* returns exactly two references, one to each of the two attachments.
C14_AlbumResolved ==
    (mdPc = "returned" /\ mdMsg.grouped /\ mdMsg.kind = "photo"
        /\ mdMsg.siblings = <<"photo">>)
    => (Len(mdPaths) = 2 /\ ReturnedAttachments = {1, 2})

\* C15: a failed download of an attachment does not end the processing of its
\* message: no task ends with an exception of the media stage.
C15_DownloadFailureTolerated == \A t \in Tasks : pc[t] # "raised_media"

\* C16: every step keeps the rows the table already holds, in place and field
\* by field; a step can only add a row after them.
C16_InsertOnly ==
    [][Len(rows') >= Len(rows) /\ SubSeq(rows', 1, Len(rows)) = rows]_vars

\* A message that was persisted without an embedding was ingested again; the
\* second save failed and the row is the one written first.
C16_Witness ==
    \E i, j \in 1 .. Len(log) :
        /\ i < j
        /\ log[i] = <<"saved", log[j][2]>> /\ log[j][1] = "error"
        /\ log[j][2] \in RowIds
        /\ RowOf(log[j][2]).embedding = None

\* Tokens one of the patterns of the extractor looks for.
FieldTokens ==
    UNION {TRANSACTION_PATTERNS[k][2] : k \in 1 .. Len(TRANSACTION_PATTERNS)}
        \cup UNION {PROPERTY_PATTERNS[k][2] : k \in 1 .. Len(PROPERTY_PATTERNS)}
        \cup UNION {ROOMS_PATTERNS[k] : k \in 1 .. Len(ROOMS_PATTERNS)}
        \cup AREA_UNITS \cup FLOOR_KEYWORDS \cup USD_TAGS \cup RUB_TAGS
        \cup ADDRESS_KEYWORDS \cup {"studiya"}

NoFieldToken(text) == \A i \in 1 .. Len(text) : text[i] \notin FieldTokens

\* C17: extract on a text without any field token returns without raising, and
\* transaction kind, property kind, rooms, area, floor, price and address are
\* all unknown.
C17_NoTokenAllUnknown ==
    (exResult.done /\ NoFieldToken(exText))
    => /\ ~exResult.data.raised
       /\ exResult.data.transaction_type = None
       /\ exResult.data.property_type = None
       /\ exResult.data.rooms = NoneInt
       /\ exResult.data.area_sqm = NoneInt
       /\ exResult.data.floor = None
       /\ exResult.data.price_usd = NoneInt
       /\ exResult.data.address = << >>

\* A text of stray digits, separators and a word: every field is unknown, the
\* room count included.
C17_Witness ==
    /\ exResult.done
    /\ exText = <<"3", ",", "000", "Lenina">>
    /\ exResult.data.rooms = NoneInt /\ exResult.data.price_usd = NoneInt
    /\ ~exResult.data.raised

\* C18: a text with a studio token has room count 0, whatever digit patterns it
\* also holds.
C18_StudioIsZero ==
    (exResult.done /\ ~exResult.data.raised /\ Search(exText, {"studiya"}) # {})
    => exResult.data.rooms = 0

\* C20: for a text with a USD-tagged number extract returns, and the price is
\* the numeral of that number.
C20_UsdNumeralUnchanged ==
    (exResult.done /\ PriceHits(exText, USD_TAGS) # {})
    => /\ ~exResult.data.raised
       /\ exResult.data.price_usd =
             100 * NumeralValue(SelectSeq(PriceGroup(exText, USD_TAGS),
                                          LAMBDA tok : tok \in DigitTokens))

\* C19: every row has a room count that is unknown or within 0 .. 10.
C19_RoomsInRange ==
    \A i \in 1 .. Len(rows) : rows[i].rooms = NoneInt \/ rows[i].rooms \in 0 .. 10

\* C21: for a text with a RUB-tagged number and no USD-tagged one extract
\* returns, and the price is the amount divided by 90 (price_usd is in cents:
\* price_usd / 100 = amount / 90).
C21_RubDividedBy90 ==
    (exResult.done /\ PriceHits(exText, USD_TAGS) = {} /\ PriceHits(exText, RUB_TAGS) # {})
    => /\ ~exResult.data.raised
       /\ 9 * exResult.data.price_usd =
             10 * NumeralValue(SelectSeq(PriceGroup(exText, RUB_TAGS),
                                         LAMBDA tok : tok \in DigitTokens))

\* C22: when parse_history returns, every message that was in the channel
\* before the start (and so among the fetched ones, all above the watermark 0 of
\* this run) has been handed to process_message.
C22_BackfillComplete ==
    [][(phase = "backfilling" /\ phase' = "listening")
         => \A id \in 1 .. Len(channel) :
               pc[id] = "idle" => \E k \in 1 .. Len(handed) : handed[k] = id]_vars

\* C23: while the orchestrator is before or inside the backfill no handler task
\* has entered process_message.
C23_NoHandlerBeforeListening ==
    phase \in {"init", "fetching", "backfilling"}
        => \A t \in LiveTasks : ~Started(t)

\* C24: a step that adds a row is the step in which a task reaches the end of
\* process_message for that message, after the download of its media and the
\* geocoding of its address have been awaited and with its embedding request
\* made; the row holds what extraction and the download produced.  A task enters
\* the download before any geocoding or embedding request, and the geocoding
\* before any embedding request.
C24_StagesInOrder ==
    [][/\ \A t \in Tasks :
             /\ (pc'[t] = "downloading" /\ pc[t] # "downloading")
                   => (pc[t] \notin Suspended /\ geoCalls'[t] = 0 /\ embCalls'[t] = 0)
             /\ (pc'[t] = "geocoding" /\ pc[t] # "geocoding")
                   => embCalls'[t] = 0
       /\ Len(rows') = Len(rows) + 1
             => LET row == rows'[Len(rows')]
                    m == channel[row.telegram_message_id]
                    d == extract(m.text)
                IN  \E t \in Tasks :
                       /\ (IF t = MainTask THEN cur' ELSE t) = m.id
                       /\ pc'[t] = "persisted"
                       /\ m.media # "none"
                             => /\ pc[t] \in Suspended
                                /\ dlCalls'[t] = 1 /\ row.photos # << >>
                       /\ d.address # << >> => (pc[t] = "geocoding" /\ geoCalls'[t] = 1)
                       /\ text_to_embed(d) # << >> => embCalls'[t] = 1
                       /\ row.rooms = d.rooms /\ row.address = d.address
                       /\ row.transaction_type = d.transaction_type]_vars

\* A message with a photo and an address was persisted by a task that awaited
\* the download and the geocoding and made the embedding request.
C24_Witness ==
    \E t \in Tasks :
        /\ pc[t] = "persisted"
        /\ dlCalls[t] = 1 /\ geoCalls[t] = 1 /\ embCalls[t] = 1
        /\ RowOf(MsgOf(t)).photos # << >>
        /\ RowOf(MsgOf(t)).address # << >>

\* The message task t is processing after the step.
MsgOfNext(t) == IF t = MainTask THEN cur' ELSE t

\* C25: the table changes only in a step in which a task's commit succeeds, and
\* then by exactly one row of that task's message, carrying all of its fields;
\* a step in which a task fails, is suspended in an await or skips its message
\* leaves the table as it was.
C25_CommitOrRollback ==
    [][rows' # rows
         => \E t \in Tasks :
               LET m == channel[MsgOfNext(t)]
                   d == extract(m.text)
                   row == rows'[Len(rows')]
               IN  /\ pc'[t] = "persisted"
                   /\ \A u \in Tasks \ {t} : pc'[u] = pc[u]
                   /\ log' = Append(log, <<"saved", m.id>>)
                   /\ \E coords \in {"coords", None}, embedding \in {"vector", None} :
                         rows' = Append(rows, NewProperty(m, coords, embedding, row.photos))
                   /\ (row.photos # << >>) <=> (m.media # "none")
                   /\ row.posted_at = m.date /\ row.price_usd = d.price_usd
                   /\ session' = "active"]_vars

\* A save of message 2 failed and left no row while another task is suspended on
\* the same message and the row of message 1, committed on the same session, is
\* in the table.
C25_Witness ==
    \E a, b, c \in Tasks :
        /\ pc[a] = "persisted" /\ MsgOf(a) \in RowIds
        /\ pc[b] \in Suspended /\ MsgOf(b) \notin RowIds
        /\ pc[c] = "rolled_back" /\ MsgOf(c) \notin RowIds
        /\ session = "active"

\* C26: a task makes at most one geocoding request for the message it is
\* processing, and none when the extracted address is unknown.
C26_OneGeocodeAttempt ==
    \A t \in Tasks :
        /\ geoCalls[t] <= 1
        /\ (MsgOf(t) \in 1 .. Len(channel)
               /\ extract(channel[MsgOf(t)].text).address = << >>)
              => geoCalls[t] = 0
        /\ pc[t] = "geocoding" => geoCalls[t] = 1

\* One task's geocoding request failed and its message was persisted without
\* coordinates after that single request; another task persisted a message
\* without an address and made no request.
C26_Witness ==
    \E t, u \in Tasks :
        /\ pc[t] = "persisted" /\ geoCalls[t] = 1
        /\ RowOf(MsgOf(t)).coords = None
        /\ pc[u] = "persisted" /\ geoCalls[u] = 0
        /\ RowOf(MsgOf(u)).address = << >>

\* The known fields in the order of text_parts, the room count included whenever
\* it is known.
KnownFieldsText(property_data) ==
    Strip(  EmbedPart(property_data.transaction_type # None, <<property_data.transaction_type>>)
         \o EmbedPart(property_data.property_type # None, <<property_data.property_type>>)
         \o EmbedPart(property_data.rooms # NoneInt,
                      <<ToString(property_data.rooms), "komnat">>)
         \o EmbedPart(property_data.area_sqm # NoneInt,
                      <<ToString(property_data.area_sqm), "m2">>)
         \o property_data.address
         \o property_data.description)

\* C27: generate_embedding sends a request exactly when some field is known, and
\* the string it sends is made of all the known fields, a room count of 0
\* included.
C27_EmbedTextOfKnownFields ==
    embResult.done
        => /\ (embResult.calls = 1) <=> (KnownFieldsText(embData) # << >>)
           /\ text_to_embed(embData) = KnownFieldsText(embData)

ReturnedPaths == {mdPaths[i] : i \in 1 .. Len(mdPaths)}

\* C28: a file in the result has been re-encoded exactly when it is a photo
\* larger than 2 MB whose compression did not fail; videos and photos of 2 MB or
\* less are as downloaded; every re-encoded file and every file whose
\* compression failed is in the result under the path it was downloaded to.
C28_ReencodeAboveThreshold ==
    /\ \A p \in ReturnedPaths :
          p \in mdReencoded
              <=> (KindOf(p[1]) = "photo" /\ mdMsg.size > 2 /\ p \notin mdFailed)
    /\ mdReencoded \subseteq ReturnedPaths
    /\ mdFailed \subseteq ReturnedPaths

\* An album of a 3 MB video and a 3 MB photo: the video is returned as
\* downloaded, the photo of the group re-encoded in place.
C28_Witness ==
    /\ mdPc = "returned"
    /\ mdMsg.kind = "video" /\ mdMsg.size = 3 /\ mdMsg.siblings = <<"photo">>
    /\ mdPaths = << <<1, 0>>, <<2, 0>> >>
    /\ mdReencoded = {<<2, 0>>}

\* C29: while the parser runs and no message is in flight, last_message_id is
\* the largest message id among the rows (0 when there is none).
C29_WatermarkTracksTable ==
    (phase \in Running /\ \A t \in Tasks : pc[t] \notin Suspended \cup {"received"})
        => last_message_id = MaxPersistedId

\* C30: within one call no attachment is downloaded twice and no path is listed
\* twice.
C30_DownloadedOnce ==
    /\ \A i, j \in 1 .. Len(mdDownloads) : mdDownloads[i] = mdDownloads[j] => i = j
    /\ \A i, j \in 1 .. Len(mdPaths) : mdPaths[i] = mdPaths[j] => i = j

====
